---- MODULE Spec2Model ----
(***************************************************************************)
(* Model of the user_info Flask application (src/apps/app.py): the         *)
(* user_info table, one action per route handler, and the log / notifier / *)
(* session events each handler invocation emits.                           *)
(***************************************************************************)
EXTENDS Integers, Sequences, FiniteSets, TLC

VARIABLES
    store,      \* committed rows of table user_info
    before,     \* the table as it was when the last request arrived
    req,        \* the last request: route, path parameter, JSON body, query arg
    resp,       \* the response it got
    trace,      \* events of the last handler invocation, in program order
    sessions,   \* sessions opened and not yet closed
    nreq,       \* requests served so far
    procs       \* the requests in flight when requests overlap, per worker

vars == <<store, before, req, resp, trace, sessions, nreq, procs>>

\* ---------------------------------------------------------------- bounds
MaxRequests == 3

\* ---------------------------------------------------------------- data
EmpIds == {1, 2}

\* JSON keys of the request bodies.
CreateKeys == {"emp_id", "age", "name", "exp", "gender", "dept", "country"}
UpdateKeys == {"age", "name", "exp", "gender", "dept", "country"}

\* Field values the requests carry: two sample employees that differ in
\* every field.
UserRows ==
    { [age |-> 29, name |-> "Sam",   exp |-> 3, gender |-> "M", dept |-> "Eng", country |-> "INDIA"],
      [age |-> 10, name |-> "Alice", exp |-> 5, gender |-> "F", dept |-> "Ops", country |-> "USA"] }

Restrict(f, K) == [k \in (DOMAIN f) \cap K |-> f[k]]

FullBody(id, row) == [emp_id |-> id] @@ row

\* Bodies of POST /create_user: all seven keys, or one key missing.
CreateBodies ==
    { Restrict(FullBody(id, row), CreateKeys \ miss) :
        id \in EmpIds, row \in UserRows,
        miss \in {{}} \cup {{k} : k \in CreateKeys} }

\* Bodies of PUT /update_user: no key, one key, all six keys, and the same
\* with an emp_id key added.
UpdateKeySets ==
    {{}, UpdateKeys} \cup {{k} : k \in UpdateKeys}
        \cup {{"emp_id"}, {"emp_id", "age"}, CreateKeys}

UpdateBodies ==
    { Restrict(FullBody(id, row), K) :
        id \in EmpIds, row \in UserRows, K \in UpdateKeySets }

NoBody == Restrict([emp_id |-> 0], {})

\* ---------------------------------------------------------------- store
\* Collaborator outcomes of one invocation: whether the SELECT, the COMMIT,
\* notify_success and notify_failure raise.  A raise ends the try block, so
\* at most one of the first three is ever observed.
Envs ==
    { e \in [queryFails : BOOLEAN, commitFails : BOOLEAN,
             successRaises : BOOLEAN, failureRaises : BOOLEAN] :
        Cardinality({ f \in {"queryFails", "commitFails", "successRaises"} : e[f] }) <= 1 }

\* create_user runs no SELECT, the read handlers no COMMIT.
CreateEnvs == { e \in Envs : ~e.queryFails }
ReadEnvs == { e \in Envs : ~e.commitFails }

\* The row with this primary key, as a set (empty or a singleton).
filter_by(st, emp_id) == { r \in st : r.EmployeeID = emp_id }

\* Mutation: no primary-key constraint.
InsertUnchecked(st, row) == FALSE

\* INSERT under the primary-key constraint of user_info.emp_id.
InsertViolatesKey(st, row) == filter_by(st, row.EmployeeID) # {}

\* ---------------------------------------------------------------- responses
Message(status, msg) ==
    [status |-> status, kind |-> "message", message |-> msg, error |-> "", records |-> {}]
ErrorMessage(msg, err) ==
    [status |-> 500, kind |-> "message", message |-> msg, error |-> err, records |-> {}]
Listing(recs) ==
    [status |-> 200, kind |-> "list", message |-> "", error |-> "", records |-> recs]
\* What Flask answers when the handler itself raises.
Unhandled ==
    [status |-> 500, kind |-> "unhandled", message |-> "", error |-> "", records |-> {}]

\* ---------------------------------------------------------------- handler blocks
Entry == <<"Session", "log_info(Entering)">>
\* Mutation: the session is not closed.
Finally_NoClose == <<"log_info(Exiting)">>


Finally == <<"close", "log_info(Exiting)">>

Outcome(st, rsp, tr) == [store |-> st, resp |-> rsp, trace |-> tr]

Raised(call, err) == call \o "_raised(" \o err \o ")"

\* Mutation: the pending changes survive the rollback.
rollback_KeepsPending(st, dirty) == dirty

\* session.rollback(): the table holds the committed rows st again; the
\* pending changes (dirty) of the session are dropped.
rollback(st, dirty) == st

\* except Exception as e: [session.rollback(),] log_error, notify_failure,
\* return 500; then the finally block.  st is what is committed when the
\* exception is caught, dirty what the session had pending.
ExceptBlock(st, dirty, tr, writes, msg, err, env) ==
    LET st1 == IF writes THEN rollback(st, dirty) ELSE st
        t1 == tr \o (IF writes THEN <<"rollback">> ELSE <<>>) \o <<"log_error">>
    IN  IF env.failureRaises
        THEN Outcome(st1, Unhandled,
                     t1 \o <<Raised("notify_failure", "NotifierError")>> \o Finally)
        ELSE Outcome(st1, ErrorMessage(msg, err), t1 \o <<"notify_failure">> \o Finally)

\* log_info, notify_success, return: the tail of every try block.
SuccessTail(st, tr, writes, rsp, msg, env) ==
    IF env.successRaises
    THEN ExceptBlock(st, st, tr \o <<"log_info", Raised("notify_success", "NotifierError")>>,
                     writes, msg, "NotifierError", env)
    ELSE Outcome(st, rsp, tr \o <<"log_info", "notify_success">> \o Finally)

\* session.commit() of the pending changes: raises on a primary-key
\* violation and on a storage failure, else makes them the table.
CommitThen(st, dirty, violates, tr, rsp, msg, env) ==
    IF violates
    THEN ExceptBlock(st, dirty, tr \o <<Raised("commit", "IntegrityError")>>, TRUE, msg,
                     "IntegrityError", env)
    ELSE IF env.commitFails
    THEN ExceptBlock(st, dirty, tr \o <<Raised("commit", "OperationalError")>>, TRUE, msg,
                     "OperationalError", env)
    ELSE SuccessTail(dirty, tr \o <<"commit">>, TRUE, rsp, msg, env)

\* Mutation: dept and country change places.
NewUser_Swapped(data) ==
    [EmployeeID |-> data.emp_id, Age |-> data.age, Name |-> data.name,
     Exp |-> data.exp, Gender |-> data.gender, Dept |-> data.country,
     Country |-> data.dept]

\* ---------------------------------------------------------------- handlers
\* UserInfo(EmployeeID=data['emp_id'], Age=data['age'], ...)
NewUser(data) ==
    [EmployeeID |-> data.emp_id, Age |-> data.age, Name |-> data.name,
     Exp |-> data.exp, Gender |-> data.gender, Dept |-> data.dept,
     Country |-> data.country]

create_user(st, data, env) ==
    LET msg == "Error creating user"
    IN  IF CreateKeys \ DOMAIN data # {}
        THEN ExceptBlock(st, st, Entry \o <<Raised("UserInfo", "KeyError")>>, TRUE, msg,
                         "KeyError", env)
        ELSE LET new_user == NewUser(data)
             IN  CommitThen(st, st \cup {new_user}, InsertViolatesKey(st, new_user),
                            Entry \o <<"add">>,
                            Message(201, "User created successfully"), msg, env)

\* data.get(key, default)
Get(data, key, default) == IF key \in DOMAIN data THEN data[key] ELSE default

\* Mutation: the body's emp_id is applied as well.
Updated_WithBodyId(user, data) ==
    [EmployeeID |-> Get(data, "emp_id", user.EmployeeID),
     Age     |-> Get(data, "age", user.Age),
     Name    |-> Get(data, "name", user.Name),
     Exp     |-> Get(data, "exp", user.Exp),
     Gender  |-> Get(data, "gender", user.Gender),
     Dept    |-> Get(data, "dept", user.Dept),
     Country |-> Get(data, "country", user.Country)]

\* user.Age = data.get('age', user.Age) ... user.Country = data.get(...)
Updated(user, data) ==
    [EmployeeID |-> user.EmployeeID,
     Age     |-> Get(data, "age", user.Age),
     Name    |-> Get(data, "name", user.Name),
     Exp     |-> Get(data, "exp", user.Exp),
     Gender  |-> Get(data, "gender", user.Gender),
     Dept    |-> Get(data, "dept", user.Dept),
     Country |-> Get(data, "country", user.Country)]

\* Mutation: no check for a missing user; the first attribute assignment raises.
user_not_found_Unchecked(st, tr, env) ==
    ExceptBlock(st, st, tr \o <<Raised("setattr", "AttributeError")>>, TRUE,
                "Error updating user", "AttributeError", env)

\* Mutation: the not-found branch reports to the notifier.
user_not_found_Notifies(st, tr, env) ==
    Outcome(st, Message(404, "User not found"),
            tr \o <<"log_warning", "notify_failure">> \o Finally)

\* if not user: log_warning, return 404 (and the finally block).
user_not_found(st, tr, env) ==
    Outcome(st, Message(404, "User not found"), tr \o <<"log_warning">> \o Finally)

\* session.query(UserInfo).filter_by(EmployeeID=emp_id).first() raising.
QueryRaised(st, msg, env) ==
    ExceptBlock(st, st, Entry \o <<Raised("query", "OperationalError")>>, TRUE, msg,
                "OperationalError", env)

update_user(st, emp_id, data, env) ==
    LET msg == "Error updating user"
        found == filter_by(st, emp_id)
    IN  IF env.queryFails THEN QueryRaised(st, msg, env)
        ELSE IF found = {} THEN user_not_found(st, Entry \o <<"query">>, env)
        ELSE LET user == CHOOSE r \in found : TRUE
             IN  CommitThen(st, (st \ {user}) \cup {Updated(user, data)}, FALSE,
                            Entry \o <<"query">>,
                            Message(200, "User updated successfully"), msg, env)

\* Mutation: the delete is lost.
Deleted_Nothing(st, user) == st

\* session.delete(user)
Deleted(st, user) == st \ {user}

delete_user(st, emp_id, env) ==
    LET msg == "Error deleting user"
        found == filter_by(st, emp_id)
    IN  IF env.queryFails THEN QueryRaised(st, msg, env)
        ELSE IF found = {} THEN user_not_found(st, Entry \o <<"query">>, env)
        ELSE LET user == CHOOSE r \in found : TRUE
             IN  CommitThen(st, Deleted(st, user), FALSE,
                            Entry \o <<"query", "delete">>,
                            Message(200, "User deleted successfully"), msg, env)

\* ---------------------------------------------------------------- reads
\* An ORM instance of a row: its column attributes plus SQLAlchemy's
\* bookkeeping attribute.
Instance(row) == row @@ [_sa_instance_state |-> "InstanceState"]

serialize_record(record) ==
    [k \in (DOMAIN record) \ {"_sa_instance_state"} |-> record[k]]

exclude_columns(record_dict) ==
    LET exclude == {}
    IN  [key \in (DOMAIN record_dict) \ exclude |-> record_dict[key]]

\* Spelling of the strings that are matched or parsed character by character.
Chars(s) ==
    CASE s = "Sam"   -> <<"S", "a", "m">>
      [] s = "Alice" -> <<"A", "l", "i", "c", "e">>
      [] s = "ali"   -> <<"a", "l", "i">>
      [] s = "SAM"   -> <<"S", "A", "M">>
      [] s = "bob"   -> <<"b", "o", "b">>
      [] s = "1"     -> <<"1">>
      [] s = "2"     -> <<"2">>
      [] s = "7"     -> <<"7">>
      [] s = "x"     -> <<"x">>
      [] s = ""      -> <<>>

Lower(c) ==
    CASE c = "S" -> "s" [] c = "A" -> "a" [] c = "M" -> "m" [] OTHER -> c

\* name ILIKE '%pattern%' (patterns here hold no % or _).
ilike(name, pattern) ==
    LET n == [i \in DOMAIN Chars(name) |-> Lower(Chars(name)[i])]
        q == [i \in DOMAIN Chars(pattern) |-> Lower(Chars(pattern)[i])]
    IN  \E k \in 0..(Len(n) - Len(q)) : \A i \in 1..Len(q) : n[k + i] = q[i]

Digits == [c \in {"0", "1", "2", "3", "4", "5", "6", "7", "8", "9"} |->
    CASE c = "0" -> 0 [] c = "1" -> 1 [] c = "2" -> 2 [] c = "3" -> 3 [] c = "4" -> 4
      [] c = "5" -> 5 [] c = "6" -> 6 [] c = "7" -> 7 [] c = "8" -> 8 [] c = "9" -> 9]

\* Whether the database can read the text as an integer, and the integer.
IsInteger(s) == Chars(s) # <<>> /\ \A i \in DOMAIN Chars(s) : Chars(s)[i] \in DOMAIN Digits

RECURSIVE DecimalValue(_)
DecimalValue(cs) ==
    IF cs = <<>> THEN 0
    ELSE 10 * DecimalValue(SubSeq(cs, 1, Len(cs) - 1)) + Digits[cs[Len(cs)]]

\* A query-string argument: absent (request.args.get gives None) or a text.
Absent == [present |-> FALSE, text |-> ""]
Arg(s) == [present |-> TRUE, text |-> s]
NoArg == Absent

Experience == 5
KidsAge == 15

\* session.query(UserInfo).filter(...).all(), serialized, then the common
\* tail; the body of every read handler's try block.
read_handler(st, rows, queryRaises, project, msg, env) ==
    IF env.queryFails \/ queryRaises
    THEN LET err == IF env.queryFails THEN "OperationalError" ELSE "DataError"
         IN  ExceptBlock(st, st, Entry \o <<Raised("query", err)>>, FALSE, msg, err, env)
    ELSE SuccessTail(st, Entry \o <<"query">>, FALSE,
                     Listing({ IF project THEN exclude_columns(serialize_record(Instance(r)))
                               ELSE serialize_record(Instance(r)) : r \in rows }),
                     msg, env)

\* Mutation: the bound is included.
ExpAtMost5(r) == r.Exp <= Experience

\* UserInfo.Exp < 5
ExpLessThan5(r) == r.Exp < Experience

get_experience_less_than_5(st, env) ==
    read_handler(st, { r \in st : ExpLessThan5(r) }, FALSE, FALSE,
                 "Error fetching records with experience less than 5 years", env)

get_users_from_india(st, env) ==
    read_handler(st, { r \in st : r.Country = "INDIA" }, FALSE, FALSE,
                 "Error fetching records from India", env)

get_users_by_gender(st, gender, env) ==
    IF ~gender.present \/ gender.text = ""
    THEN Outcome(st, Message(400, "Gender parameter is required"), <<>>)
    ELSE read_handler(st, { r \in st : r.Gender = gender.text }, FALSE, FALSE,
                      "Error fetching records by gender", env)

\* Mutation: the name argument is not checked.
get_users_by_name_Unchecked(st, name, env) ==
    read_handler(st, { r \in st : ilike(r.Name, name.text) }, FALSE, FALSE,
                 "Error fetching records by name", env)

get_users_by_name(st, name, env) ==
    IF ~name.present \/ name.text = ""
    THEN Outcome(st, Message(400, "Name parameter is required"), <<>>)
    ELSE read_handler(st, { r \in st : ilike(r.Name, name.text) }, FALSE, FALSE,
                      "Error fetching records by name", env)

\* Name == None compiles to "name IS NULL"; no stored name is NULL here.
get_emp_name(st, emp_name, env) ==
    read_handler(st, { r \in st : emp_name.present /\ r.Name = emp_name.text },
                 FALSE, FALSE, "Error fetching record by Name", env)

get_records(st, env) ==
    read_handler(st, st, FALSE, FALSE, "Error fetching records", env)

get_custom_columns(st, env) ==
    read_handler(st, st, FALSE, TRUE, "Error fetching custom columns", env)

fetch_records(st, env) ==
    read_handler(st, st, FALSE, FALSE, "Error fetching records", env)

\* The argument is compared with the integer column as text: the database
\* rejects a text that is no integer.
get_single_record(st, emp_id, env) ==
    read_handler(st,
                 { r \in st : emp_id.present /\ IsInteger(emp_id.text)
                                /\ r.EmployeeID = DecimalValue(Chars(emp_id.text)) },
                 emp_id.present /\ ~IsInteger(emp_id.text), FALSE,
                 "Error fetching record by ID", env)

get_kids(st, env) ==
    read_handler(st, { r \in st : r.Age < KidsAge }, FALSE, FALSE,
                 "Error fetching kids records", env)

get_docs(st) ==
    Outcome(st, [status |-> 200, kind |-> "documentation", message |-> "",
                 error |-> "", records |-> {}], <<>>)

\* ---------------------------------------------------------------- requests
Request(route, emp_id, data, arg) ==
    [route |-> route, emp_id |-> emp_id, data |-> data, arg |-> arg]

Count(tr, ev) == Cardinality({ i \in DOMAIN tr : tr[i] = ev })

\* One request served start to finish.
Serve(r, out) ==
    \E o \in {out} :
        /\ nreq' = nreq + 1
        /\ before' = store
        /\ req' = r
        /\ store' = o.store
        /\ resp' = o.resp
        /\ trace' = o.trace
        /\ sessions' = sessions + Count(o.trace, "Session") - Count(o.trace, "close")
        /\ UNCHANGED procs

CreateUser ==
    /\ nreq < MaxRequests
    /\ \E data \in CreateBodies, env \in CreateEnvs :
        Serve(Request("create_user", 0, data, NoArg), create_user(store, data, env))

UpdateUser ==
    /\ nreq < MaxRequests
    /\ \E emp_id \in EmpIds, data \in UpdateBodies, env \in Envs :
        Serve(Request("update_user", emp_id, data, NoArg),
              update_user(store, emp_id, data, env))

DeleteUser ==
    /\ nreq < MaxRequests
    /\ \E emp_id \in EmpIds, env \in Envs :
        Serve(Request("delete_user", emp_id, NoBody, NoArg),
              delete_user(store, emp_id, env))

GenderArgs == {Absent, Arg(""), Arg("M"), Arg("F")}
NameArgs == {Absent, Arg(""), Arg("ali"), Arg("SAM"), Arg("bob")}
EmpNameArgs == {Absent, Arg("Sam"), Arg("ali")}
EmpIdArgs == {Absent, Arg(""), Arg("1"), Arg("2"), Arg("7"), Arg("x")}

Read(route, arg, out) ==
    /\ nreq < MaxRequests
    /\ Serve(Request(route, 0, NoBody, arg), out)

GetExperienceLessThan5 ==
    \E env \in ReadEnvs : Read("get-experience-less-than-5", NoArg, get_experience_less_than_5(store, env))

GetUsersFromIndia ==
    \E env \in ReadEnvs : Read("get-users-from-india", NoArg, get_users_from_india(store, env))

GetUsersByGender ==
    \E gender \in GenderArgs, env \in ReadEnvs :
        Read("get-users-by-gender", gender, get_users_by_gender(store, gender, env))

GetUsersByName ==
    \E name \in NameArgs, env \in ReadEnvs :
        Read("get-users-by-name", name, get_users_by_name(store, name, env))

GetEmpName ==
    \E emp_name \in EmpNameArgs, env \in ReadEnvs :
        Read("get-emp-name", emp_name, get_emp_name(store, emp_name, env))

GetRecords ==
    \E env \in ReadEnvs : Read("get_all_records", NoArg, get_records(store, env))

GetCustomColumns ==
    \E env \in ReadEnvs : Read("get_custom_columns", NoArg, get_custom_columns(store, env))

FetchRecords ==
    \E env \in ReadEnvs : Read("get_records", NoArg, fetch_records(store, env))

GetSingleRecord ==
    \E emp_id \in EmpIdArgs, env \in ReadEnvs :
        Read("get-emp-id", emp_id, get_single_record(store, emp_id, env))

GetKids ==
    \E env \in ReadEnvs : Read("get-kids", NoArg, get_kids(store, env))

GetDocs ==
    Read("get_docs", NoArg, get_docs(store))

\* Workers of the server; the requests they have in flight.
Workers == {1, 2}

Idle == [pc |-> "idle", serial |-> 0, route |-> "none", emp_id |-> 0, data |-> NoBody,
         loaded |-> {}, fresh |-> FALSE, peers |-> {}, resp |-> Message(0, "")]

Init ==
    /\ store = {}
    /\ before = {}
    /\ req = Request("none", 0, NoBody, NoArg)
    /\ resp = Message(0, "")
    /\ trace = <<>>
    /\ sessions = 0
    /\ nreq = 0
    /\ procs = [p \in Workers |-> Idle]

Next ==
    \/ CreateUser
    \/ UpdateUser
    \/ DeleteUser
    \/ GetExperienceLessThan5
    \/ GetUsersFromIndia
    \/ GetUsersByGender
    \/ GetUsersByName
    \/ GetEmpName
    \/ GetRecords
    \/ GetCustomColumns
    \/ FetchRecords
    \/ GetSingleRecord
    \/ GetKids
    \/ GetDocs

Spec == Init /\ [][Next]_vars

\* ---------------------------------------------------------------- overlapping requests
\* Workers that serve create_user, update_user and delete_user requests at
\* the same time.  A handler touches the table twice at most: at its SELECT
\* and at its COMMIT; the database serialises each of the two.
\* Bodies of the overlapping requests.
OverlapCreateBodies == { FullBody(id, row) : id \in EmpIds, row \in UserRows }
OverlapUpdateBodies ==
    { Restrict(FullBody(id, row), K) :
        id \in EmpIds, row \in UserRows, K \in {{"age"}, UpdateKeys} }

\* Collaborator outcomes of the overlapping requests: none raises, the
\* COMMIT raises, or notify_success raises.
OverlapEnvs == { e \in Envs : ~e.queryFails /\ ~e.failureRaises }

InFlight(q) == procs[q].pc \in {"opened", "loaded"}

\* session = Session(); log_info("Entering ..."): the request is in flight.
\* It is numbered, and the requests in flight when it arrives are noted.
Open(p, route, emp_id, data) ==
    /\ nreq < MaxRequests
    /\ procs[p].pc \in {"idle", "done"}
    /\ procs' = [procs EXCEPT ![p] =
                    [pc |-> "opened", serial |-> nreq + 1, route |-> route,
                     emp_id |-> emp_id, data |-> data,
                     loaded |-> {}, fresh |-> filter_by(store, emp_id) = {},
                     peers |-> { procs[q].serial : q \in { w \in Workers \ {p} : InFlight(w) } },
                     resp |-> Message(0, "")]]
    /\ nreq' = nreq + 1
    /\ sessions' = sessions + 1
    /\ UNCHANGED <<store, before, req, resp, trace>>

\* The handler returns (its finally block closes the session).
Return(p, out) ==
    \E o \in {out} :
        /\ procs' = [procs EXCEPT ![p].pc = "done", ![p].resp = o.resp]
        /\ store' = o.store
        /\ sessions' = sessions - Count(o.trace, "close")
        /\ UNCHANGED <<before, req, resp, trace, nreq>>

\* The UPDATE that the commit flushes: it sets the attributes whose value the
\* handler changed, in the row with the loaded primary key.  No changed
\* attribute, no UPDATE.
ChangedAttributes(loaded, updated) == { a \in DOMAIN loaded : updated[a] # loaded[a] }

FlushUpdate(st, loaded, updated) ==
    { IF r.EmployeeID = loaded.EmployeeID
      THEN [a \in DOMAIN r |-> IF a \in ChangedAttributes(loaded, updated)
                                THEN updated[a] ELSE r[a]]
      ELSE r : r \in st }

\* The UPDATE matches no row: the row was deleted after it was loaded.
StaleUpdate(st, loaded, updated) ==
    /\ ChangedAttributes(loaded, updated) # {}
    /\ filter_by(st, loaded.EmployeeID) = {}

\* The DELETE that the commit flushes.
FlushDelete(st, loaded) == st \ filter_by(st, loaded.EmployeeID)

OpenCreate(p) ==
    \E data \in OverlapCreateBodies : Open(p, "create_user", data.emp_id, data)

OpenUpdate(p) ==
    \E emp_id \in EmpIds, data \in OverlapUpdateBodies : Open(p, "update_user", emp_id, data)

OpenDelete(p) ==
    \E emp_id \in EmpIds : Open(p, "delete_user", emp_id, NoBody)

\* create_user from session.add to its return: one INSERT and COMMIT.
CommitCreate(p) ==
    /\ procs[p].pc = "opened" /\ procs[p].route = "create_user"
    /\ \E env \in OverlapEnvs : Return(p, create_user(store, procs[p].data, env))

\* user = session.query(UserInfo).filter_by(EmployeeID=emp_id).first(), and
\* the not-found return.
QueryUser(p) ==
    /\ procs[p].pc = "opened" /\ procs[p].route \in {"update_user", "delete_user"}
    /\ \E env \in OverlapEnvs :
        LET msg == IF procs[p].route = "update_user" THEN "Error updating user"
                   ELSE "Error deleting user"
            found == filter_by(store, procs[p].emp_id)
        IN  IF env.queryFails THEN Return(p, QueryRaised(store, msg, env))
            ELSE IF found = {}
            THEN Return(p, user_not_found(store, Entry \o <<"query">>, env))
            ELSE /\ procs' = [procs EXCEPT ![p].pc = "loaded", ![p].loaded = found]
                 /\ UNCHANGED <<store, before, req, resp, trace, sessions, nreq>>

\* update_user from its assignments to its return.
CommitUpdate(p) ==
    /\ procs[p].pc = "loaded" /\ procs[p].route = "update_user"
    /\ \E env \in OverlapEnvs, user \in procs[p].loaded :
        LET msg == "Error updating user"
            updated == Updated(user, procs[p].data)
            tr == Entry \o <<"query">>
        IN  IF StaleUpdate(store, user, updated)
            THEN Return(p, ExceptBlock(store, store,
                                       tr \o <<Raised("commit", "StaleDataError")>>,
                                       TRUE, msg, "StaleDataError", env))
            ELSE Return(p, CommitThen(store, FlushUpdate(store, user, updated), FALSE, tr,
                                      Message(200, "User updated successfully"), msg, env))

\* delete_user from session.delete to its return.
CommitDelete(p) ==
    /\ procs[p].pc = "loaded" /\ procs[p].route = "delete_user"
    /\ \E env \in OverlapEnvs, user \in procs[p].loaded :
        Return(p, CommitThen(store, FlushDelete(store, user), FALSE,
                             Entry \o <<"query", "delete">>,
                             Message(200, "User deleted successfully"),
                             "Error deleting user", env))

NextOverlap ==
    \E p \in Workers :
        \/ OpenCreate(p)
        \/ OpenUpdate(p)
        \/ OpenDelete(p)
        \/ CommitCreate(p)
        \/ QueryUser(p)
        \/ CommitUpdate(p)
        \/ CommitDelete(p)

SpecOverlap == Init /\ [][NextOverlap]_vars

\* ================================================================ properties
\* Vocabulary of the properties: what the last invocation did.
Called(ev) == \E i \in DOMAIN trace : trace[i] = ev
Route(r) == nreq > 0 /\ req.route = r

\* The store (SELECT or COMMIT) failed for a reason outside the request.
StorageFault ==
    Called(Raised("query", "OperationalError")) \/ Called(Raised("commit", "OperationalError"))
SuccessNotifierRaised == Called(Raised("notify_success", "NotifierError"))
FailureNotifierRaised == Called(Raised("notify_failure", "NotifierError"))
NoFault == ~StorageFault /\ ~SuccessNotifierRaised /\ ~FailureNotifierRaised

\* An invocation in which no collaborator raises.
Calm == [queryFails |-> FALSE, commitFails |-> FALSE,
         successRaises |-> FALSE, failureRaises |-> FALSE]

\* What GET /get_all_records and GET /get-emp-id answer on table st.
AllRecords(st) == get_records(st, Calm).resp
Text(id) == CASE id = 1 -> "1" [] id = 2 -> "2"
SingleRecord(st, id) == get_single_record(st, Arg(Text(id)), Calm).resp

\* The attribute a JSON key of the body is stored in.
AttributeOf(k) ==
    CASE k = "emp_id" -> "EmployeeID" [] k = "age" -> "Age" [] k = "name" -> "Name"
      [] k = "exp" -> "Exp" [] k = "gender" -> "Gender" [] k = "dept" -> "Dept"
      [] k = "country" -> "Country"

CreatesNew ==
    /\ Route("create_user")
    /\ DOMAIN req.data = CreateKeys
    /\ filter_by(before, req.data.emp_id) = {}

\* C1: a create_user request with all seven fields and an emp_id that is not
\* in the store commits exactly that record, so that a following
\* get_all_records returns the previous records plus exactly one record with
\* that emp_id carrying the submitted age, name, exp, gender, dept and
\* country; it returns 201.  (The store's part holds whenever the store does
\* not fail, the status when in addition no notifier call raises.)
C1_CreateThenGetAll ==
    (CreatesNew /\ ~StorageFault) =>
        LET now == AllRecords(store).records
            was == AllRecords(before).records
            mine == { u \in now : u.EmployeeID = req.data.emp_id }
        IN  /\ AllRecords(store).status = 200
            /\ Cardinality(mine) = 1
            /\ now = was \cup mine
            /\ mine \cap was = {}
            /\ \A u \in mine :
                 /\ DOMAIN u = { AttributeOf(k) : k \in CreateKeys }
                 /\ \A k \in CreateKeys : u[AttributeOf(k)] = req.data[k]
            /\ NoFault => resp.status = 201

C1_Witness ==
    /\ CreatesNew /\ NoFault
    /\ resp.status = 201
    /\ before # {}
    /\ Cardinality(store) = 2

\* C2: a create_user request whose emp_id already exists answers 500, never
\* 201, and leaves the store as it was: the existing record keeps every field
\* and no record is added or removed.
C2_DuplicateCreateFails ==
    ( /\ Route("create_user")
      /\ "emp_id" \in DOMAIN req.data
      /\ filter_by(before, req.data.emp_id) # {} )
    => /\ resp.status = 500
       /\ store = before
       /\ AllRecords(store) = AllRecords(before)

C2_Witness ==
    /\ Route("create_user")
    /\ DOMAIN req.data = CreateKeys
    /\ \E r \in before : r.EmployeeID = req.data.emp_id /\ r.Age # req.data.age
    /\ Called(Raised("commit", "IntegrityError"))
    /\ resp.status = 500
    /\ resp.error = "IntegrityError"

\* C3: after a successful update_user(emp_id, body) the record with that
\* emp_id has the supplied fields set to the supplied values, every field not
\* in the body keeps its prior value, its emp_id is unchanged (also when the
\* body has an emp_id key), and every other record is unchanged.
C3_UpdateFrame ==
    (Route("update_user") /\ resp.status = 200) =>
        \E old \in before, new \in store :
            /\ old.EmployeeID = req.emp_id
            /\ new.EmployeeID = req.emp_id
            /\ store \ {new} = before \ {old}
            /\ \A k \in UpdateKeys :
                 new[AttributeOf(k)] =
                    IF k \in DOMAIN req.data THEN req.data[k] ELSE old[AttributeOf(k)]

C3_Witness ==
    /\ Route("update_user") /\ resp.status = 200
    /\ DOMAIN req.data = {"emp_id", "age"}
    /\ req.data.emp_id # req.emp_id
    /\ \E old \in before : old.EmployeeID = req.emp_id /\ old.Age # req.data.age
    /\ Cardinality(store) = 2

\* C4: update_user on an emp_id that is not in the store answers 404 and
\* creates no record: the store after the call is the store before it, for
\* any body.  (404 is the answer whenever the lookup itself does not fail.)
C4_UpdateMissing ==
    (Route("update_user") /\ filter_by(before, req.emp_id) = {}) =>
        /\ store = before
        /\ ~StorageFault => (resp.status = 404 /\ resp.message = "User not found")

C4_Witness ==
    /\ Route("update_user")
    /\ filter_by(before, req.emp_id) = {}
    /\ DOMAIN req.data = CreateKeys
    /\ before # {}
    /\ resp.status = 404

\* C5: delete_user on an existing emp_id removes the record, so that a
\* following get-emp-id for it returns an empty array while every other record
\* is still there, and answers 200; a delete_user on an emp_id that is gone
\* (a second delete with no create between) answers 404.  Both are stated of
\* every request served; the last conjunct is the two deletes in a row.
C5_DeleteOutcome ==
    /\ (Route("delete_user") /\ filter_by(before, req.emp_id) # {} /\ ~StorageFault) =>
          /\ store = before \ filter_by(before, req.emp_id)
          /\ SingleRecord(store, req.emp_id).status = 200
          /\ SingleRecord(store, req.emp_id).records = {}
          /\ \A id \in EmpIds \ {req.emp_id} :
                SingleRecord(store, id) = SingleRecord(before, id)
          /\ NoFault => resp.status = 200
    /\ (Route("delete_user") /\ filter_by(before, req.emp_id) = {} /\ ~StorageFault) =>
          /\ resp.status = 404
          /\ store = before

C5_DeleteThenGone ==
    [][ /\ C5_DeleteOutcome'
        /\ ( /\ Route("delete_user") /\ resp.status = 200
             /\ req'.route = "delete_user" /\ req'.emp_id = req.emp_id
             /\ ~StorageFault' )
           => resp'.status = 404 ]_vars

C5_Witness ==
    /\ Route("delete_user") /\ resp.status = 200
    /\ Cardinality(before) = 2
    /\ Cardinality(store) = 1
    /\ SingleRecord(before, req.emp_id).records # {}
    /\ SingleRecord(store, req.emp_id).records = {}

\* C6: whatever creates, updates and deletes came before,
\* get-experience-less-than-5 returns exactly the stored records whose exp is
\* below 5, and none whose exp is 5 or more.
C6_ExperienceFilter ==
    Route("get-experience-less-than-5") =>
        /\ NoFault => resp.status = 200
        /\ resp.status = 200 =>
              /\ resp.kind = "list"
              /\ resp.records = { u \in AllRecords(store).records : u.Exp < 5 }
              /\ \A u \in AllRecords(store).records : u.Exp >= 5 => u \notin resp.records

\* Of two stored records, the one with exp 3 is returned and the one with exp 5 is not.
C6_Witness ==
    /\ Route("get-experience-less-than-5") /\ resp.status = 200
    /\ \E r \in store : r.Exp = 5
    /\ \E r \in store : r.Exp = 3
    /\ Cardinality(resp.records) = 1

\* Notifier calls of the last invocation, returned or raised.
SuccessCalls == Count(trace, "notify_success") + Count(trace, Raised("notify_success", "NotifierError"))
FailureCalls == Count(trace, "notify_failure") + Count(trace, Raised("notify_failure", "NotifierError"))
EntryLogged == Len(trace) >= 2 /\ trace[1] = "Session" /\ trace[2] = "log_info(Entering)"
ExitLogged == Len(trace) >= 2 /\ trace[Len(trace)] = "log_info(Exiting)"

\* C7 as stated: every handler invocation, whatever its branch (success,
\* exception, 404, 400), emits an entry log event, an exit log event and
\* exactly one notifier call: notify_success on the success path,
\* notify_failure on the exception path.  Stated of the invocations of the
\* record routes in which no notifier call raises.
C7_OneNotifierCallEveryBranch ==
    (nreq > 0 /\ req.route # "get_docs"
        /\ ~SuccessNotifierRaised /\ ~FailureNotifierRaised) =>
        /\ EntryLogged /\ ExitLogged
        /\ SuccessCalls + FailureCalls = 1
        /\ resp.status \in {200, 201} => SuccessCalls = 1
        /\ resp.status = 500 => FailureCalls = 1

\* C7 as amended: an invocation that opens a session emits the entry and the
\* exit log event.  Its notifier calls depend on the branch: one
\* notify_success and no notify_failure when it answers its success status;
\* none at all on the 404 branch, which logs a warning; one notify_failure
\* whenever an exception is caught, after a notify_success only when that call
\* is what raised.  An invocation that answers before opening a session (400
\* for a missing parameter, and get_docs) emits no log event and calls no
\* notifier.
C7_NotifierCallsByBranch ==
    nreq > 0 =>
        /\ (resp.status \in {200, 201} /\ req.route # "get_docs") =>
              /\ EntryLogged /\ ExitLogged
              /\ Count(trace, "notify_success") = 1
              /\ SuccessCalls = 1 /\ FailureCalls = 0
        /\ resp.status = 404 =>
              /\ EntryLogged /\ ExitLogged /\ Called("log_warning")
              /\ SuccessCalls = 0 /\ FailureCalls = 0
        /\ (resp.status = 400 \/ req.route = "get_docs") => trace = <<>>
        /\ resp.status = 500 =>
              /\ EntryLogged /\ ExitLogged /\ Called("log_error")
              /\ FailureCalls = 1
              /\ Count(trace, "notify_success") = 0
              /\ SuccessCalls = IF SuccessNotifierRaised THEN 1 ELSE 0
        /\ resp.status \in {200, 201, 400, 404, 500}

C7_Witness ==
    /\ Route("delete_user")
    /\ resp.status = 404
    /\ EntryLogged /\ ExitLogged
    /\ SuccessCalls + FailureCalls = 0

\* C8: every invocation that acquires a session releases it on every exit
\* path (success, 404, an exception in the store operation, an exception in a
\* notifier call) before it answers, so that no session is open after any
\* sequence of completed requests.
C8_SessionsReleased ==
    /\ sessions = 0
    /\ Count(trace, "Session") = Count(trace, "close")
    /\ Called("Session") =>
          \E i, j \in DOMAIN trace :
              /\ i < j /\ trace[i] = "Session" /\ trace[j] = "close"
              /\ \A k \in DOMAIN trace : k > j => trace[k] = "log_info(Exiting)"

C8_Witness ==
    /\ Route("update_user")
    /\ SuccessNotifierRaised /\ FailureNotifierRaised
    /\ resp = Unhandled
    /\ Called("close")
    /\ sessions = 0

\* C9: the notifier never fails the primary operation: when notify_success
\* raises after create_user, update_user or delete_user has committed, the
\* handler still answers its success status (201 or 200), and a 500 from
\* these handlers implies that the request left the store unchanged.
C9_NotifierNeverFailsOperation ==
    (Route("create_user") \/ Route("update_user") \/ Route("delete_user")) =>
        /\ (Called("commit") /\ SuccessNotifierRaised) => resp.status \in {200, 201}
        /\ resp.status = 500 => store = before

\* C10: an update_user whose commit raises is not applied in part: the
\* handler rolls back, answers 500 with the error text, calls notify_failure,
\* and the targeted record and every other record are as before the request.
\* (The error text is in the answer when notify_failure itself returns.)
C10_FailedUpdateNotApplied ==
    (Route("update_user") /\ Called(Raised("commit", "OperationalError"))) =>
        /\ Called("rollback")
        /\ store = before
        /\ resp.status = 500
        /\ FailureCalls = 1 /\ SuccessCalls = 0
        /\ ~FailureNotifierRaised =>
              /\ resp.kind = "message"
              /\ resp.message = "Error updating user"
              /\ resp.error = "OperationalError"

C10_Witness ==
    /\ Route("update_user")
    /\ Called(Raised("commit", "OperationalError"))
    /\ \E old \in before : old.EmployeeID = req.emp_id /\ Updated(old, req.data) # old
    /\ Cardinality(before) = 2
    /\ store = before
    /\ resp.error = "OperationalError"

\* The last request came without its query argument, or with an empty one.
ArgMissing == ~req.arg.present \/ req.arg.text = ""

\* C11: of the read routes that take a query argument, exactly
\* get-users-by-gender and get-users-by-name answer 400 with a message when
\* the argument is absent or empty, and they do so without opening a session
\* or reading the store; get-emp-name and get-emp-id never answer 400, and
\* with the argument absent they answer an empty list.
C11_MissingParameter ==
    /\ ((Route("get-users-by-gender") \/ Route("get-users-by-name")) /\ ArgMissing) =>
          /\ resp.status = 400
          /\ resp.kind = "message" /\ resp.message # ""
          /\ trace = <<>>
          /\ store = before
    /\ ((Route("get-users-by-gender") \/ Route("get-users-by-name")) /\ ~ArgMissing) =>
          /\ resp.status # 400
          /\ Called("Session")
    /\ (Route("get-emp-name") \/ Route("get-emp-id")) =>
          /\ resp.status # 400
          /\ Called("Session")
          /\ (~req.arg.present /\ NoFault) =>
                (resp.status = 200 /\ resp.kind = "list" /\ resp.records = {})
    /\ (nreq > 0 /\ resp.status = 400) =>
          req.route \in {"get-users-by-gender", "get-users-by-name"}

C11_Witness ==
    /\ Route("get-users-by-name")
    /\ req.arg = Arg("")
    /\ resp.status = 400
    /\ resp.message = "Name parameter is required"
    /\ store # {}
    /\ trace = <<>>

\* Two create_user requests for the same emp_id that was not stored when
\* either arrived, in flight at the same time, both answered.
OverlappingCreates(p, q) ==
    /\ p # q
    /\ procs[p].pc = "done" /\ procs[q].pc = "done"
    /\ procs[p].route = "create_user" /\ procs[q].route = "create_user"
    /\ procs[p].emp_id = procs[q].emp_id
    /\ procs[p].fresh /\ procs[q].fresh
    /\ (procs[q].serial \in procs[p].peers \/ procs[p].serial \in procs[q].peers)

====
